---- MODULE Spec2Model ----
(***************************************************************************)
(* The e-commerce API of src/main.py over the four MongoDB collections of  *)
(* src/db.py.  Every handler is a short sequence of store operations; each *)
(* read of the carts or users collection and each write is one step of the *)
(* request that issues it, so requests served at the same time interleave  *)
(* between their reads and writes.  The product lookups of a handler read  *)
(* documents no handler writes; they belong to the step they follow.       *)
(*                                                                         *)
(* Documents are records; a collection is the sequence of its documents in *)
(* insertion order and a document's _id is its position.  find_one returns *)
(* the first matching document, update_one changes the first matching one. *)
(* Prices are in cents.  A timestamp field holds the number of times its    *)
(* document was stamped with datetime.utcnow(): it changes exactly when the *)
(* document is stamped again.  Identifiers are always well formed (the 422  *)
(* branches of the handlers are not modelled) and passwords are left out.   *)
(***************************************************************************)
EXTENDS Integers, Sequences, FiniteSets, TLC

\* ---------------------------------------------------------------- bounds
\* Requests the service accepts in one behaviour.
MaxOps == 3
\* Products of the seeded catalog that requests name.
NumProducts == 2
\* Requests that can be in flight at the same time.
NumReq == 2

Products == 1..NumProducts
\* (username, email) pairs that register: two share a username, two an email.
Accounts == {<<"alice", "a@x.io">>, <<"alice", "b@x.io">>, <<"bob", "a@x.io">>}
\* quantity is any int: the form field is not validated.
Quantities == {-1, 1}
\* A well-formed identifier that no user document carries.
NoUserId == 0
\* find_one's None.
None == 0

\* ------------------------------------------------------- seeded catalog
SeedName == <<"Laptop", "Smartphone", "Headphones", "T-Shirt", "Coffee Mug">>
SeedPrice == <<99999, 69999, 19999, 2999, 1299>>

VARIABLES products, users, carts, orders, reqs, resp, ops, last

vars == <<products, users, carts, orders, reqs, resp, ops, last>>

\* ------------------------------------------------------------- helpers
RECURSIVE SumSeq(_)
SumSeq(s) == IF s = <<>> THEN 0 ELSE Head(s) + SumSeq(Tail(s))

RECURSIVE MapQuantity(_)
MapQuantity(s) == IF s = <<>> THEN <<>> ELSE <<Head(s).quantity>> \o MapQuantity(Tail(s))

RECURSIVE MapSubtotal(_)
MapSubtotal(s) == IF s = <<>> THEN <<>> ELSE <<Head(s).subtotal>> \o MapSubtotal(Tail(s))

\* carts_collection.find_one({"user_id": u}): the first cart of u, or None.
FindCart(u) ==
    IF \E i \in 1..Len(carts) : carts[i].user_id = u
    THEN CHOOSE i \in 1..Len(carts) :
            /\ carts[i].user_id = u
            /\ \A j \in 1..(i - 1) : carts[j].user_id # u
    ELSE None

\* Variant: the lookup matches the username alone.
FindUserByName(n, e) ==
    IF \E i \in 1..Len(users) : users[i].username = n
    THEN CHOOSE i \in 1..Len(users) :
            /\ users[i].username = n
            /\ \A j \in 1..(i - 1) : users[j].username # n
    ELSE None

\* users_collection.find_one({"$or": [{"username": n}, {"email": e}]}).
FindUser(n, e) ==
    IF \E i \in 1..Len(users) : users[i].username = n \/ users[i].email = e
    THEN CHOOSE i \in 1..Len(users) :
            /\ users[i].username = n \/ users[i].email = e
            /\ \A j \in 1..(i - 1) : ~(users[j].username = n \/ users[j].email = e)
    ELSE None

\* products_collection.find_one({"_id": p}) finds a document.
ProductFound(p) == p \in products

\* The position of product p in an items list, or None.
ItemIndex(items, p) ==
    IF \E i \in 1..Len(items) : items[i].product_id = p
    THEN CHOOSE i \in 1..Len(items) :
            /\ items[i].product_id = p
            /\ \A j \in 1..(i - 1) : items[j].product_id # p
    ELSE None

\* Variant: the quantity of a line already present is replaced.
AddItemReplaces(items, p, q) ==
    LET i == ItemIndex(items, p) IN
    IF i # None
    THEN [items EXCEPT ![i].quantity = q]
    ELSE Append(items, [product_id |-> p, quantity |-> q])

\* Variant: a line is appended whether or not the product is present.
AddItemAppends(items, p, q) == Append(items, [product_id |-> p, quantity |-> q])

\* add_to_cart's merge of (p, q) into the items it read.
AddItem(items, p, q) ==
    LET i == ItemIndex(items, p) IN
    IF i # None
    THEN [items EXCEPT ![i].quantity = @ + q]
    ELSE Append(items, [product_id |-> p, quantity |-> q])

\* Variant: the subtotal is the unit price.
OrderLineUnitPrice(item) ==
    [product_id   |-> item.product_id,
     product_name |-> SeedName[item.product_id],
     quantity     |-> item.quantity,
     price        |-> SeedPrice[item.product_id],
     subtotal     |-> SeedPrice[item.product_id]]

\* checkout's snapshot of one cart item.
OrderLine(item) ==
    [product_id   |-> item.product_id,
     product_name |-> SeedName[item.product_id],
     quantity     |-> item.quantity,
     price        |-> SeedPrice[item.product_id],
     subtotal     |-> SeedPrice[item.product_id] * item.quantity]

\* checkout's loop over the items it read: the lines of those whose product
\* is found, in order.
RECURSIVE OrderItems(_)
OrderItems(items) ==
    IF items = <<>> THEN <<>>
    ELSE (IF ProductFound(Head(items).product_id) THEN <<OrderLine(Head(items))>> ELSE <<>>)
         \o OrderItems(Tail(items))

\* grand_total, accumulated line by line from 0.
RECURSIVE GrandTotal(_)
GrandTotal(lines) ==
    IF lines = <<>> THEN 0
    ELSE GrandTotal(SubSeq(lines, 1, Len(lines) - 1)) + lines[Len(lines)].subtotal

\* get_cart's joined line of one cart item.
CartLine(item) ==
    [product  |-> item.product_id,
     quantity |-> item.quantity,
     subtotal |-> SeedPrice[item.product_id] * item.quantity]

\* get_cart's loop over the items it read.
RECURSIVE CartItems(_)
CartItems(items) ==
    IF items = <<>> THEN <<>>
    ELSE (IF ProductFound(Head(items).product_id) THEN <<CartLine(Head(items))>> ELSE <<>>)
         \o CartItems(Tail(items))

\* ------------------------------------------------------- request state
\* reqs holds the requests in flight: for each its number, the place its
\* handler has reached (pc) and the handler's local variables.
NoResp == [req |-> -1, op |-> "none", status |-> 0]
NoRun == [kind |-> "none"]

AllIdle == reqs = {}

\* The service accepts another request.
CanStart ==
    /\ Cardinality(reqs) < NumReq
    /\ ops < MaxOps

\* Identifiers a request can carry: those of the stored users, and one of no user.
UserIds == {NoUserId} \cup (1..Len(users))

\* The handler returns (or raises): resp is the last response sent, with the
\* number of the request it answers.
Finish(t, response) ==
    /\ reqs' = reqs \ {t}
    /\ resp' = response

\* The handler of a new request runs up to its next store operation.
Begin(locals) ==
    /\ reqs' = reqs \cup {locals}
    /\ resp' = resp

\* The handler goes on to its next store operation.
Goto(t, locals) ==
    /\ reqs' = (reqs \ {t}) \cup {locals}
    /\ resp' = resp

\* ------------------------------------------------------------- initial
Init ==
    /\ products = Products
    /\ users = <<>>
    /\ carts = <<>>
    /\ orders = <<>>
    /\ reqs = {}
    /\ resp = NoResp
    /\ ops = 0
    /\ last = [u \in {} |-> NoRun]

\* History of the committed cart writes, per user: last[u] tells that the
\* last write to u's cart was a checkout's clearing, or the count-th add in
\* a row of one product, the adds summing to total on top of the items base.
RunOf(u) == IF u \in DOMAIN last THEN last[u] ELSE NoRun

SetRun(u, run) == [x \in (DOMAIN last) \cup {u} |-> IF x = u THEN run ELSE last[x]]

AddRun(u, p, q, before) ==
    LET old == RunOf(u) IN
    IF old.kind = "add" /\ old.product = p
    THEN SetRun(u, [old EXCEPT !.total = @ + q, !.count = @ + 1])
    ELSE SetRun(u, [kind |-> "add", product |-> p, base |-> before,
                    total |-> q, count |-> 1])

StoredItems(u) == IF FindCart(u) = None THEN <<>> ELSE carts[FindCart(u)].items

\* ------------------------------------------------------------ register
\* existing_user = users_collection.find_one(...); 409 when there is one.
RegisterStart(n, e) ==
    /\ CanStart
    /\ ops' = ops + 1
    /\ IF FindUser(n, e) # None
       THEN /\ resp' = [req |-> ops, op |-> "register", status |-> 409]
            /\ reqs' = reqs
       ELSE Begin([req |-> ops, pc |-> "reg_insert_user", username |-> n, email |-> e])
    /\ UNCHANGED <<products, users, carts, orders, last>>

\* result = users_collection.insert_one(user_data)
RegisterInsertUser(t) ==
    /\ t.pc = "reg_insert_user"
    /\ users' = Append(users, [username |-> t.username, email |-> t.email,
                               created_at |-> 1])
    /\ Goto(t, [req |-> t.req, pc |-> "reg_insert_cart", inserted_id |-> Len(users) + 1])
    /\ UNCHANGED <<products, carts, orders, ops, last>>

\* carts_collection.insert_one({"user_id": result.inserted_id, "items": [], ...})
RegisterInsertCart(t) ==
    /\ t.pc = "reg_insert_cart"
    /\ carts' = Append(carts, [user_id |-> t.inserted_id, items |-> <<>>,
                               updated_at |-> 1])
    /\ Finish(t, [req |-> t.req, op |-> "register", status |-> 200, user_id |-> t.inserted_id])
    /\ UNCHANGED <<products, users, orders, ops, last>>

\* --------------------------------------------------------- add_to_cart
\* The product lookup (404 when it finds none), then the read of the cart.
AddToCartStart(u, p, q) ==
    /\ CanStart
    /\ ops' = ops + 1
    /\ LET c == FindCart(u) IN
       IF ~ProductFound(p)
       THEN /\ resp' = [req |-> ops, op |-> "add_to_cart", status |-> 404]
            /\ reqs' = reqs
       ELSE IF c = None
       THEN Begin([req |-> ops, pc |-> "add_insert_cart",
                   user_id |-> u, product_id |-> p, quantity |-> q])
       ELSE Begin([req |-> ops, pc |-> "add_update_cart",
                   user_id |-> u, product_id |-> p, quantity |-> q,
                   cart_id |-> c, items |-> carts[c].items])
    /\ UNCHANGED <<products, users, carts, orders, last>>

\* No cart was found: insert one holding the item.
AddInsertCart(t) ==
    /\ t.pc = "add_insert_cart"
    /\ carts' = Append(carts,
                       [user_id |-> t.user_id,
                        items |-> <<[product_id |-> t.product_id,
                                     quantity |-> t.quantity]>>,
                        updated_at |-> 1])
    /\ last' = AddRun(t.user_id, t.product_id, t.quantity, StoredItems(t.user_id))
    /\ Finish(t, [req |-> t.req, op |-> "add_to_cart", status |-> 200])
    /\ UNCHANGED <<products, users, orders, ops>>

\* Variant: the write merges into the items stored at the time of the write.
AddUpdateCartFresh(t) ==
    /\ t.pc = "add_update_cart"
    /\ carts' = [carts EXCEPT ![t.cart_id] =
                    [@ EXCEPT !.items = AddItem(@, t.product_id, t.quantity),
                              !.updated_at = @ + 1]]
    /\ last' = AddRun(t.user_id, t.product_id, t.quantity, StoredItems(t.user_id))
    /\ Finish(t, [req |-> t.req, op |-> "add_to_cart", status |-> 200])
    /\ UNCHANGED <<products, users, orders, ops>>

\* A cart was found: merge into the items read, write the whole list back.
AddUpdateCart(t) ==
    /\ t.pc = "add_update_cart"
    /\ carts' = [carts EXCEPT ![t.cart_id] =
                    [@ EXCEPT !.items = AddItem(t.items, t.product_id, t.quantity),
                              !.updated_at = @ + 1]]
    /\ last' = AddRun(t.user_id, t.product_id, t.quantity, StoredItems(t.user_id))
    /\ Finish(t, [req |-> t.req, op |-> "add_to_cart", status |-> 200])
    /\ UNCHANGED <<products, users, orders, ops>>

\* ------------------------------------------------------------ get_cart
GetCart(u) ==
    /\ CanStart
    /\ ops' = ops + 1
    /\ LET c == FindCart(u) IN
       IF c = None \/ carts[c].items = <<>>
       THEN resp' = [req |-> ops, op |-> "get_cart", status |-> 200, user_id |-> u,
                     message |-> "Cart is empty", items |-> <<>>]
       ELSE resp' = [req |-> ops, op |-> "get_cart", status |-> 200, user_id |-> u,
                     items |-> CartItems(carts[c].items),
                     total_items |-> SumSeq(MapQuantity(carts[c].items))]
    /\ UNCHANGED <<products, users, carts, orders, reqs, last>>

\* ------------------------------------------------------------ checkout
\* Variant: only an absent cart is refused.
CheckoutStartNoEmptyCheck(u) ==
    /\ CanStart
    /\ ops' = ops + 1
    /\ LET c == FindCart(u) IN
       IF c = None
       THEN /\ resp' = [req |-> ops, op |-> "checkout", status |-> 400, user_id |-> u]
            /\ reqs' = reqs
       ELSE Begin([req |-> ops, pc |-> "checkout_insert",
                   user_id |-> u, items |-> carts[c].items,
                   order_items |-> OrderItems(carts[c].items),
                   grand_total |-> GrandTotal(OrderItems(carts[c].items))])
    /\ UNCHANGED <<products, users, carts, orders, last>>

\* The read of the cart (400 when it is absent or empty), then the loop.
CheckoutStart(u) ==
    /\ CanStart
    /\ ops' = ops + 1
    /\ LET c == FindCart(u) IN
       IF c = None \/ carts[c].items = <<>>
       THEN /\ resp' = [req |-> ops, op |-> "checkout", status |-> 400, user_id |-> u]
            /\ reqs' = reqs
       ELSE Begin([req |-> ops, pc |-> "checkout_insert",
                   user_id |-> u, items |-> carts[c].items,
                   order_items |-> OrderItems(carts[c].items),
                   grand_total |-> GrandTotal(OrderItems(carts[c].items))])
    /\ UNCHANGED <<products, users, carts, orders, last>>

\* order_result = orders_collection.insert_one(order_data)
CheckoutInsertOrder(t) ==
    /\ t.pc = "checkout_insert"
    /\ orders' = Append(orders,
                        [user_id |-> t.user_id, items |-> t.order_items,
                         total_amount |-> t.grand_total, status |-> "completed",
                         created_at |-> 1])
    /\ Goto(t, [req |-> t.req, pc |-> "checkout_clear",
                user_id |-> t.user_id, items |-> t.items,
                order_items |-> t.order_items, grand_total |-> t.grand_total,
                order_id |-> Len(orders) + 1])
    /\ UNCHANGED <<products, users, carts, ops, last>>

\* Variant: the cart is cleared although the insert raised.
CheckoutInsertOrderFailsClears(t) ==
    /\ t.pc = "checkout_insert"
    /\ LET c == FindCart(t.user_id) IN
       IF c = None
       THEN carts' = carts
       ELSE carts' = [carts EXCEPT ![c] = [@ EXCEPT !.items = <<>>,
                                                     !.updated_at = @ + 1]]
    /\ Finish(t, [req |-> t.req, op |-> "checkout", status |-> 500, user_id |-> t.user_id])
    /\ UNCHANGED <<products, users, orders, ops, last>>

\* insert_one raises (the store refuses the write): the handler ends there.
CheckoutInsertOrderFails(t) ==
    /\ t.pc = "checkout_insert"
    /\ Finish(t, [req |-> t.req, op |-> "checkout", status |-> 500, user_id |-> t.user_id])
    /\ UNCHANGED <<products, users, carts, orders, ops, last>>

\* Variant: the update refreshes the timestamp and leaves the items.
CheckoutClearCartKeepsItems(t) ==
    /\ t.pc = "checkout_clear"
    /\ LET c == FindCart(t.user_id) IN
       IF c = None
       THEN carts' = carts
       ELSE carts' = [carts EXCEPT ![c] = [@ EXCEPT !.updated_at = @ + 1]]
    /\ last' = SetRun(t.user_id, [kind |-> "checkout"])
    /\ Finish(t, [req |-> t.req, op |-> "checkout", status |-> 200, user_id |-> t.user_id,
                  order_id |-> t.order_id,
                  items |-> t.order_items, total_amount |-> t.grand_total,
                  total_items |-> SumSeq(MapQuantity(t.order_items))])
    /\ UNCHANGED <<products, users, orders, ops>>

\* carts_collection.update_one({"user_id": ...}, {"$set": {"items": [], ...}})
CheckoutClearCart(t) ==
    /\ t.pc = "checkout_clear"
    /\ LET c == FindCart(t.user_id) IN
       IF c = None
       THEN carts' = carts
       ELSE carts' = [carts EXCEPT ![c] = [@ EXCEPT !.items = <<>>,
                                                     !.updated_at = @ + 1]]
            /\ last' = SetRun(t.user_id, [kind |-> "checkout"])
    /\ Finish(t, [req |-> t.req, op |-> "checkout", status |-> 200, user_id |-> t.user_id,
                  order_id |-> t.order_id,
                  items |-> t.order_items, total_amount |-> t.grand_total,
                  total_items |-> SumSeq(MapQuantity(t.order_items))])
    /\ UNCHANGED <<products, users, orders, ops>>

\* --------------------------------------------------------------- store
\* The catalog lives in the shared store: a product document can be removed
\* from it by another client of the database.
RemoveProduct(p) ==
    /\ p \in products
    /\ ops < MaxOps
    /\ ops' = ops + 1
    /\ products' = products \ {p}
    /\ UNCHANGED <<users, carts, orders, reqs, resp, last>>

\* ---------------------------------------------------------------- next
\* Requests are served concurrently.
Next ==
    \/ \E a \in Accounts : RegisterStart(a[1], a[2])
    \/ \E t \in reqs : RegisterInsertUser(t)
    \/ \E t \in reqs : RegisterInsertCart(t)
    \/ \E u \in UserIds, p \in Products, q \in Quantities : AddToCartStart(u, p, q)
    \/ \E t \in reqs : AddInsertCart(t)
    \/ \E t \in reqs : AddUpdateCart(t)
    \/ \E u \in UserIds : GetCart(u)
    \/ \E u \in UserIds : CheckoutStart(u)
    \/ \E t \in reqs : CheckoutInsertOrder(t)
    \/ \E t \in reqs : CheckoutInsertOrderFails(t)
    \/ \E t \in reqs : CheckoutClearCart(t)
    \/ \E p \in Products : RemoveProduct(p)

\* Requests are served one at a time.
NextSeq ==
    \/ \E a \in Accounts : AllIdle /\ RegisterStart(a[1], a[2])
    \/ \E t \in reqs : RegisterInsertUser(t)
    \/ \E t \in reqs : RegisterInsertCart(t)
    \/ \E u \in UserIds, p \in Products, q \in Quantities :
          AllIdle /\ AddToCartStart(u, p, q)
    \/ \E t \in reqs : AddInsertCart(t)
    \/ \E t \in reqs : AddUpdateCart(t)
    \/ \E u \in UserIds : AllIdle /\ GetCart(u)
    \/ \E u \in UserIds : AllIdle /\ CheckoutStart(u)
    \/ \E t \in reqs : CheckoutInsertOrder(t)
    \/ \E t \in reqs : CheckoutInsertOrderFails(t)
    \/ \E t \in reqs : CheckoutClearCart(t)
    \/ \E p \in Products : AllIdle /\ RemoveProduct(p)

Spec == Init /\ [][Next]_vars

SpecSeq == Init /\ [][NextSeq]_vars

\* ------------------------------------------------------------ properties
\* The quantity a list of items holds of product p (0 when it has no line).
QtyOf(items, p) ==
    IF \E i \in 1..Len(items) : items[i].product_id = p
    THEN LET i == CHOOSE i \in 1..Len(items) : items[i].product_id = p
         IN items[i].quantity
    ELSE 0

LinesOf(items, p) == {i \in 1..Len(items) : items[i].product_id = p}

RECURSIVE Without(_, _)
Without(items, p) ==
    IF items = <<>> THEN <<>>
    ELSE (IF Head(items).product_id = p THEN <<>> ELSE <<Head(items)>>)
         \o Without(Tail(items), p)

RECURSIVE Resolving(_)
Resolving(items) ==
    IF items = <<>> THEN <<>>
    ELSE (IF Head(items).product_id \in products THEN <<Head(items)>> ELSE <<>>)
         \o Resolving(Tail(items))

\* The request t takes this step and leaves the place it was at.
Leaves(t) == \A t2 \in reqs' : t2.req = t.req => t2.pc # t.pc

\* C1: served one at a time, two (or more) successful add_to_cart calls in a
\* row for the same user and product, with no checkout in between, leave
\* exactly one line for the product, whose quantity is the one the cart held
\* before (0 if it had no line) plus the added quantities; the other lines
\* of the cart are unchanged.
C1_SameProductTwiceSums ==
    \A u \in DOMAIN last :
        (last[u].kind = "add" /\ last[u].count >= 2) =>
            LET items == StoredItems(u)
                p == last[u].product
            IN /\ Cardinality(LinesOf(items, p)) = 1
               /\ QtyOf(items, p) = QtyOf(last[u].base, p) + last[u].total
               /\ Without(items, p) = Without(last[u].base, p)

\* Two adds in a row of one product went into a cart that held another line.
C1_Witness ==
    \E u \in DOMAIN last :
        /\ last[u].kind = "add" /\ last[u].count = 2
        /\ last[u].base # <<>>
        /\ QtyOf(last[u].base, last[u].product) = 0
        /\ reqs = {}

\* C2: in every reachable state, whatever the interleaving of the requests'
\* reads and writes, every cart holds at most one line per product.
C2_OneLinePerProduct ==
    \A c \in 1..Len(carts) :
        \A i, j \in 1..Len(carts[c].items) :
            carts[c].items[i].product_id = carts[c].items[j].product_id => i = j

\* A cart of two lines into which a product was added twice in a row.
C2_Witness ==
    \E c \in 1..Len(carts) :
        /\ Len(carts[c].items) = 2
        /\ RunOf(carts[c].user_id).kind = "add"
        /\ RunOf(carts[c].user_id).count >= 2

\* C3: served one at a time, a checkout that inserted its order inserted one
\* order, whose lines are, in stored order, the stored cart items whose
\* product resolves, each with subtotal = price * quantity, and whose
\* total_amount is the sum of the subtotals of its lines.
C3_OrderOfCart ==
    /\ [](\A t \in reqs :
            t.pc = "checkout_clear" =>
                LET o == orders[t.order_id]
                    src == Resolving(StoredItems(t.user_id))
                IN /\ t.order_id = Len(orders)
                   /\ o.user_id = t.user_id
                   /\ Len(o.items) = Len(src)
                   /\ \A i \in 1..Len(src) :
                         /\ o.items[i].product_id = src[i].product_id
                         /\ o.items[i].quantity = src[i].quantity
                         /\ o.items[i].price = SeedPrice[src[i].product_id]
                         /\ o.items[i].product_name = SeedName[src[i].product_id]
                         /\ o.items[i].subtotal =
                                SeedPrice[src[i].product_id] * src[i].quantity
                   /\ o.total_amount = SumSeq(MapSubtotal(o.items)))
    /\ [][/\ Len(orders') \in {Len(orders), Len(orders) + 1}
          /\ SubSeq(orders', 1, Len(orders)) = orders
          /\ \A t \in reqs :
                (t.pc = "checkout_insert" /\ Leaves(t)) =>
                    \/ Len(orders') = Len(orders) + 1
                    \/ resp'.req = t.req /\ resp'.status = 500]_vars

\* A checkout has inserted the order of a cart of two items.
C3_Witness ==
    \E t \in reqs :
        /\ t.pc = "checkout_clear"
        /\ Len(orders[t.order_id].items) = 2
        /\ orders[t.order_id].total_amount > 0

\* The order of a cart one of whose items no longer resolves.
C3_SkipReached ==
    \E t \in reqs :
        /\ t.pc = "checkout_clear"
        /\ Len(orders[t.order_id].items) < Len(StoredItems(t.user_id))

\* C4: served one at a time, once a checkout of a user has succeeded and as
\* long as no add_to_cart for that user followed, the user's cart is empty and
\* get_cart for that user answers with the empty-cart result, not an error.
C4_EmptyAfterCheckout ==
    \A u \in DOMAIN last :
        last[u].kind = "checkout" =>
            /\ StoredItems(u) = <<>>
            /\ (resp.op = "get_cart" /\ resp.user_id = u) =>
                  /\ resp.status = 200
                  /\ resp.items = <<>>
                  /\ resp.message = "Cart is empty"

\* get_cart has answered for a user whose last cart write was a checkout.
C4_Witness ==
    /\ resp.op = "get_cart"
    /\ RunOf(resp.user_id).kind = "checkout"
    /\ resp.items = <<>>
    /\ orders # <<>>

\* C5: whenever the items of a cart become empty, a checkout of that user is
\* in flight whose order is already in the orders collection; and a checkout
\* whose order insert fails ends there, with every cart as it was.
C5_OrderBeforeClear ==
    [][/\ \A c \in 1..Len(carts) :
            (carts[c].items # <<>> /\ carts'[c].items = <<>>) =>
                \E t \in reqs :
                    /\ t.pc = "checkout_clear"
                    /\ t.user_id = carts[c].user_id
                    /\ t.order_id \in 1..Len(orders)
                    /\ orders[t.order_id].user_id = t.user_id
                    /\ orders[t.order_id].items = t.order_items
       /\ \A t \in reqs :
            (t.pc = "checkout_insert" /\ Leaves(t) /\ orders' = orders) =>
                /\ carts' = carts
                /\ \A t2 \in reqs' : t2.req # t.req
                /\ resp'.req = t.req /\ resp'.status = 500]_vars

\* An order insert has failed; the cart still holds its items, no order exists.
C5_Witness ==
    /\ resp.op = "checkout" /\ resp.status = 500
    /\ StoredItems(resp.user_id) # <<>>
    /\ orders = <<>>
    /\ reqs = {}

\* A checkout of user u arrives in this step.
CheckoutArrives(u) ==
    /\ ops' = ops + 1
    /\ \/ resp'.req = ops /\ resp'.op = "checkout" /\ resp'.user_id = u
       \/ \E t \in reqs' : t.req = ops /\ t.pc = "checkout_insert" /\ t.user_id = u

\* C6: a checkout of a user whose cart is absent or empty is answered 400 and
\* changes nothing: no order, and every cart document as it was (items and
\* timestamp).
C6_EmptyCheckoutChangesNothing ==
    [][\A u \in UserIds :
          (CheckoutArrives(u) /\ (FindCart(u) = None \/ carts[FindCart(u)].items = <<>>)) =>
              /\ resp'.req = ops /\ resp'.status = 400
              /\ reqs' = reqs
              /\ carts' = carts
              /\ orders' = orders]_vars

\* A checkout of an existing, empty cart was refused while another cart holds items.
C6_Witness ==
    /\ resp.op = "checkout" /\ resp.status = 400
    /\ FindCart(resp.user_id) # None
    /\ \E c \in 1..Len(carts) : carts[c].items # <<>>
    /\ orders = <<>>

\* C7: served one at a time, a register whose username or email an existing
\* user has is answered 409 with users and carts unchanged; a register that
\* goes on inserts exactly one user and then exactly one empty cart whose
\* user_id is the new user's identifier.
C7_Register ==
    [][/\ \A t \in reqs' :
            (t.req = ops /\ t.pc = "reg_insert_user") =>
                \A i \in 1..Len(users) :
                    users[i].username # t.username /\ users[i].email # t.email
       /\ (resp'.req = ops /\ resp'.op = "register") =>
            /\ resp'.status = 409
            /\ users' = users /\ carts' = carts /\ reqs' = reqs
       /\ \A t \in reqs :
            (t.pc = "reg_insert_user" /\ Leaves(t)) =>
                /\ Len(users') = Len(users) + 1
                /\ SubSeq(users', 1, Len(users)) = users
                /\ users'[Len(users')].username = t.username
                /\ users'[Len(users')].email = t.email
                /\ carts' = carts
                /\ \E t2 \in reqs' : /\ t2.req = t.req /\ t2.pc = "reg_insert_cart"
                                     /\ t2.inserted_id = Len(users')
       /\ \A t \in reqs :
            (t.pc = "reg_insert_cart" /\ Leaves(t)) =>
                /\ users' = users
                /\ Len(carts') = Len(carts) + 1
                /\ SubSeq(carts', 1, Len(carts)) = carts
                /\ carts'[Len(carts')].user_id = t.inserted_id
                /\ carts'[Len(carts')].items = <<>>
                /\ resp'.req = t.req /\ resp'.status = 200
                /\ resp'.user_id = t.inserted_id]_vars

\* A register was refused after two users had registered, each with a cart.
C7_Witness ==
    /\ resp.op = "register" /\ resp.status = 409
    /\ Len(users) = 2
    /\ Len(carts) = 2
    /\ \A c \in 1..2 : carts[c].user_id = c /\ carts[c].items = <<>>

\* C8: in every reachable state every item of every cart has a quantity >= 1.
C8_QuantitiesPositive ==
    \A c \in 1..Len(carts) :
        \A i \in 1..Len(carts[c].items) : carts[c].items[i].quantity >= 1

\* C9: add_to_cart writes back the items it read, merged, with no check of
\* what the cart holds by then: the write of an add that found a cart leaves
\* in that cart exactly the items the request read, with its quantity added.
C9_WriteOfSnapshot ==
    [][\A t \in reqs :
          (t.pc = "add_update_cart" /\ Leaves(t)) =>
              LET written == carts'[t.cart_id].items IN
              /\ QtyOf(written, t.product_id) = QtyOf(t.items, t.product_id) + t.quantity
              /\ Without(written, t.product_id) = Without(t.items, t.product_id)
              /\ resp'.req = t.req /\ resp'.status = 200]_vars

\* A lost update: adds of one product, all answered 200, went in a row into
\* the one cart of a user, and the cart holds less than they add up to.
C9_LostUpdate ==
    \E u \in DOMAIN last :
        /\ last[u].kind = "add" /\ last[u].count >= 2
        /\ Cardinality({c \in 1..Len(carts) : carts[c].user_id = u}) = 1
        /\ QtyOf(StoredItems(u), last[u].product)
              < QtyOf(last[u].base, last[u].product) + last[u].total
        /\ reqs = {}

\* C10: in every reachable state no two cart documents have the same user_id.
C10_OneCartPerUser ==
    \A i, j \in 1..Len(carts) : carts[i].user_id = carts[j].user_id => i = j
====
